---- MODULE Spec2Model ----
(***************************************************************************)
(* Model of auto-editor's audio reconstruction (fastAudio.py) and of the   *)
(* Timeline aggregates (timeline.py).                                      *)
(*                                                                         *)
(* Python floats are modelled as exact rationals [n, d] (d > 0, lowest     *)
(* terms); int() is truncation toward zero and round() is Python's         *)
(* round-half-to-even.  A PCM sample of the source is represented by its   *)
(* position + 1, a zero sample by 0 and a sample produced by the           *)
(* time-stretch processor by -1.                                           *)
(***************************************************************************)
EXTENDS Integers, Sequences, FiniteSets, TLC

VARIABLES chunks, speeds, fps, samplerate, audioLen,
          pc, estLeng, newAudio, yPointer, yPointerEnd, chunkNum, ticks,
          written,
          v, a, tl_op, tl_val,
          tl_tb, timebase, ntsc, read_tb, tb_pc, uri, path, uri_pc

audioVars == <<chunks, speeds, fps, samplerate, audioLen, pc, estLeng,
               newAudio, yPointer, yPointerEnd, chunkNum, ticks, written>>

tlVars == <<v, a, tl_op, tl_val>>

fcpVars == <<tl_tb, timebase, ntsc, read_tb, tb_pc, uri, path, uri_pc>>

vars == <<chunks, speeds, fps, samplerate, audioLen, pc, estLeng,
          newAudio, yPointer, yPointerEnd, chunkNum, ticks, written,
          v, a, tl_op, tl_val,
          tl_tb, timebase, ntsc, read_tb, tb_pc, uri, path, uri_pc>>

----------------------------------------------------------------------------
(* Bounds of the model *)

MaxChunks == 2
StretchSlack == 1
MaxLayers == 2
MaxUriTail == 4

----------------------------------------------------------------------------
(* Exact arithmetic standing for Python's float / int arithmetic *)

Abs(x) == IF x < 0 THEN -x ELSE x
Min(x, y) == IF x < y THEN x ELSE y
Max(x, y) == IF x > y THEN x ELSE y

RECURSIVE GCD(_, _)
GCD(x, y) == IF y = 0 THEN x ELSE GCD(y, x % y)

Rat(n, d) ==
    LET g == GCD(Abs(n), Abs(d))
        s == IF d < 0 THEN -1 ELSE 1
    IN  [n |-> (s * n) \div g, d |-> (s * d) \div g]

FromInt(k) == [n |-> k, d |-> 1]
RAdd(x, y) == Rat(x.n * y.d + y.n * x.d, x.d * y.d)
RMul(x, y) == Rat(x.n * y.n, x.d * y.d)
RDiv(x, y) == Rat(x.n * y.d, x.d * y.n)
RLess(x, y) == x.n * y.d < y.n * x.d
RMax(x, y) == IF RLess(x, y) THEN y ELSE x

\* int(x): truncation toward zero
Trunc(x) == IF x.n >= 0 THEN x.n \div x.d ELSE -((-x.n) \div x.d)

\* round(x): nearest integer, ties to the even one
PyRound(x) ==
    LET f == x.n \div x.d
        r == 2 * (x.n - f * x.d)
    IN  IF r < x.d THEN f
        ELSE IF r > x.d THEN f + 1
        ELSE IF f % 2 = 0 THEN f ELSE f + 1

\* a[lo:hi] on a sequence of length n: the normalised bounds of the slice
SliceLo(n, lo) == IF lo < 0 THEN Max(lo + n, 0) ELSE Min(lo, n)
SliceHi(n, hi) == IF hi < 0 THEN Max(hi + n, 0) ELSE Min(hi, n)
SliceLen(n, lo, hi) == Max(0, SliceHi(n, hi) - SliceLo(n, lo))

----------------------------------------------------------------------------
(* Inputs of fastAudio *)

One == FromInt(1)
Sentinel == FromInt(99999)

SpeedVals == {One, Rat(3, 2), Sentinel}
SpeedTables == [0..1 -> SpeedVals]

\* (fps, samplerate): 1.5 and 2 samples per frame
Rates == {<<FromInt(2), 3>>, <<Rat(3, 2), 3>>}

\* frame numbers of the original timeline
Frames == 0..2

Chunk == [start : Frames, end : Frames, idx : 0..1]
Schedules == UNION {[1..n -> Chunk] : n \in 0..MaxChunks}

\* the decoded source holds the samples of all the frames
SourceLen(f, sr) ==
    Trunc(RMul(RDiv(FromInt(Cardinality(Frames) - 1), f), FromInt(sr)))

audioData(lo, hi) == [k \in 1..(hi - lo) |-> lo + k]

----------------------------------------------------------------------------
(* fastAudio *)

\* usefulFunctions.getNewLength: seconds of output, dropped chunks excluded
RECURSIVE getNewLengthFrames(_, _, _)
getNewLengthFrames(cs, sp, k) ==
    IF k = 0 THEN FromInt(0)
    ELSE LET c == cs[k]
             rest == getNewLengthFrames(cs, sp, k - 1)
         IN  IF sp[c.idx] = Sentinel THEN rest
             ELSE RAdd(rest, RDiv(FromInt(c.end - c.start), sp[c.idx]))

getNewLength(cs, sp, f) == RDiv(getNewLengthFrames(cs, sp, Len(cs)), f)

\* variant: the capacity is the expected length, with no margin
EstLengNoMargin(cs, sp, f, sr) ==
    Trunc(RMul(getNewLength(cs, sp, f), FromInt(sr)))

EstLeng(cs, sp, f, sr) ==
    Trunc(RMul(RMul(getNewLength(cs, sp, f), FromInt(sr)), Rat(3, 2)))
        + Trunc(FromInt(sr * 2))

audioSampleStart(c) == Trunc(RMul(RDiv(FromInt(c.start), fps), FromInt(samplerate)))

audioSampleEnd(c) ==
    Trunc(RAdd(FromInt(audioSampleStart(c)),
               RMul(RDiv(FromInt(samplerate), fps), FromInt(c.end - c.start))))

theSpeed(c) == speeds[c.idx]

\* spedChunk = audioData[audioSampleStart:audioSampleEnd]
spedChunk(c) ==
    audioData(SliceLo(audioLen, audioSampleStart(c)),
              SliceLo(audioLen, audioSampleStart(c))
                  + SliceLen(audioLen, audioSampleStart(c), audioSampleEnd(c)))

\* variant: the speed is left out of the expected length
newSamplesNoSpeed(c) ==
    LET myL == c.end - c.start
        mySamples == RMul(RDiv(FromInt(myL), fps), FromInt(samplerate))
    IN  Trunc(mySamples)

newSamples(c) ==
    LET myL == c.end - c.start
        mySamples == RMul(RDiv(FromInt(myL), fps), FromInt(samplerate))
    IN  Trunc(RDiv(mySamples, theSpeed(c)))

\* lengths the time-stretch processor may return for an input of n samples
StretchLens(n, s) ==
    LET q == RDiv(FromInt(n), s)
        lo == q.n \div q.d
        hi == -((-q.n) \div q.d)
    IN  {m \in (lo - StretchSlack)..(hi + StretchSlack) : m >= 0}

spedupAudio(m) == [k \in 1..m |-> -1]

\* newAudio[lo:hi] = data succeeds when the shapes agree or data has one row
CanAssign(buf, lo, hi, data) ==
    \/ SliceLen(Len(buf), lo, hi) = Len(data)
    \/ Len(data) = 1

Assign(buf, lo, hi, data) ==
    LET from == SliceLo(Len(buf), lo)
        n == SliceLen(Len(buf), lo, hi)
    IN  [k \in 1..Len(buf) |->
            IF k > from /\ k <= from + n
            THEN (IF Len(data) = 1 THEN data[1] ELSE data[k - from])
            ELSE buf[k]]

\* buf[:hi]
Prefix(buf, hi) == SubSeq(buf, 1, SliceHi(Len(buf), hi))

Init ==
    /\ chunks \in Schedules
    /\ speeds \in SpeedTables
    /\ \E r \in Rates :
          /\ fps = r[1]
          /\ samplerate = r[2]
          /\ audioLen = SourceLen(r[1], r[2])
    /\ pc = "start"
    /\ estLeng = 0
    /\ newAudio = <<>>
    /\ yPointer = 0
    /\ yPointerEnd = 0
    /\ chunkNum = 0
    /\ ticks = <<>>
    /\ written = <<>>
    /\ v = <<>>
    /\ a = <<>>
    /\ tl_op = "none"
    /\ tl_val = FromInt(0)
    /\ tl_tb = FromInt(1)
    /\ timebase = 0
    /\ ntsc = "FALSE"
    /\ read_tb = FromInt(0)
    /\ tb_pc = "off"
    /\ uri = <<>>
    /\ path = <<>>
    /\ uri_pc = "off"

\* line 48-49: log.error aborts the run
CheckEmpty ==
    /\ UNCHANGED <<tlVars, fcpVars>>
    /\ pc = "start"
    /\ pc' = IF Len(chunks) = 1 /\ chunks[1].idx = 0 THEN "fatal" ELSE "read"
    /\ UNCHANGED <<chunks, speeds, fps, samplerate, audioLen, estLeng,
                   newAudio, yPointer, yPointerEnd, chunkNum, ticks, written>>

\* lines 51-64: np.zeros raises ValueError on a negative dimension
Allocate ==
    /\ UNCHANGED <<tlVars, fcpVars>>
    /\ pc = "read"
    /\ estLeng' = EstLeng(chunks, speeds, fps, samplerate)
    /\ IF estLeng' < 0
       THEN /\ pc' = "crash"
            /\ UNCHANGED newAudio
       ELSE /\ pc' = "loop"
            /\ newAudio' = [k \in 1..estLeng' |-> 0]
    /\ yPointer' = 0
    /\ chunkNum' = 0
    /\ UNCHANGED <<chunks, speeds, fps, samplerate, audioLen, yPointerEnd,
                   ticks, written>>

\* variant: a dropped chunk still moves the cursor by its source length
SkipChunkAdvancing ==
    /\ UNCHANGED <<tlVars, fcpVars>>
    /\ pc = "loop"
    /\ chunkNum < Len(chunks)
    /\ theSpeed(chunks[chunkNum + 1]) = Sentinel
    /\ yPointerEnd' = yPointer
    /\ yPointer' = yPointer + audioSampleEnd(chunks[chunkNum + 1])
                            - audioSampleStart(chunks[chunkNum + 1])
    /\ ticks' = Append(ticks, chunkNum)
    /\ chunkNum' = chunkNum + 1
    /\ UNCHANGED <<chunks, speeds, fps, samplerate, audioLen, pc, estLeng,
                   newAudio, written>>

\* lines 94-98
SkipChunk ==
    /\ UNCHANGED <<tlVars, fcpVars>>
    /\ pc = "loop"
    /\ chunkNum < Len(chunks)
    /\ theSpeed(chunks[chunkNum + 1]) = Sentinel
    /\ yPointerEnd' = yPointer
    /\ ticks' = Append(ticks, chunkNum)
    /\ chunkNum' = chunkNum + 1
    /\ UNCHANGED <<chunks, speeds, fps, samplerate, audioLen, pc, estLeng,
                   newAudio, yPointer, written>>

\* variant: the cursor follows the written block (yPointer = yPointerEnd)
WriteChunkByBlock(c, block) ==
    /\ UNCHANGED <<tlVars, fcpVars>>
    /\ yPointerEnd' = yPointer + Len(block)
    /\ IF CanAssign(newAudio, yPointer, yPointerEnd', block)
       THEN /\ newAudio' = Assign(newAudio, yPointer, yPointerEnd', block)
            /\ yPointer' = yPointerEnd'
            /\ ticks' = Append(ticks, chunkNum)
            /\ chunkNum' = chunkNum + 1
            /\ pc' = pc
       ELSE /\ pc' = "crash"
            /\ UNCHANGED <<newAudio, yPointer, ticks, chunkNum>>
    /\ UNCHANGED <<chunks, speeds, fps, samplerate, audioLen, estLeng, written>>

\* the body of the loop for a chunk that is kept, given the block to write
WriteChunk(c, block) ==
    /\ UNCHANGED <<tlVars, fcpVars>>
    /\ yPointerEnd' = yPointer + Len(block)
    /\ IF CanAssign(newAudio, yPointer, yPointerEnd', block)
       THEN /\ newAudio' = Assign(newAudio, yPointer, yPointerEnd', block)
            /\ yPointer' = yPointer + newSamples(c)
            /\ ticks' = Append(ticks, chunkNum)
            /\ chunkNum' = chunkNum + 1
            /\ pc' = pc
       ELSE /\ pc' = "crash"
            /\ UNCHANGED <<newAudio, yPointer, ticks, chunkNum>>
    /\ UNCHANGED <<chunks, speeds, fps, samplerate, audioLen, estLeng, written>>

\* lines 72-76, 89-93, 98
CopyChunk ==
    /\ pc = "loop"
    /\ chunkNum < Len(chunks)
    /\ theSpeed(chunks[chunkNum + 1]) = One
    /\ WriteChunk(chunks[chunkNum + 1], spedChunk(chunks[chunkNum + 1]))

\* lines 72, 77-93, 98
StretchChunk ==
    /\ pc = "loop"
    /\ chunkNum < Len(chunks)
    /\ theSpeed(chunks[chunkNum + 1]) # Sentinel
    /\ theSpeed(chunks[chunkNum + 1]) # One
    /\ \E m \in StretchLens(Len(spedChunk(chunks[chunkNum + 1])),
                            theSpeed(chunks[chunkNum + 1])) :
          WriteChunk(chunks[chunkNum + 1], spedupAudio(m))

\* lines 100-104
Finish ==
    /\ UNCHANGED <<tlVars, fcpVars>>
    /\ pc = "loop"
    /\ chunkNum = Len(chunks)
    /\ written' = Prefix(newAudio, yPointer)
    /\ pc' = "done"
    /\ UNCHANGED <<chunks, speeds, fps, samplerate, audioLen, estLeng,
                   newAudio, yPointer, yPointerEnd, chunkNum, ticks>>

Next ==
    \/ CheckEmpty
    \/ Allocate
    \/ SkipChunk
    \/ CopyChunk
    \/ StretchChunk
    \/ Finish

Spec == Init /\ [][Next]_vars

----------------------------------------------------------------------------
(* Properties of fastAudio *)

InLoop == pc = "loop" /\ chunkNum < Len(chunks)
Dropped(c) == speeds[c.idx] = Sentinel
Unity(c) == speeds[c.idx] = One
Stretched(c) == ~Dropped(c) /\ ~Unity(c)

\* (end_frame - start_frame) / fps * samplerate / speed as a fraction N / D
ExpectedNum(c) == (c.end - c.start) * fps.d * samplerate * speeds[c.idx].d
ExpectedDen(c) == fps.n * speeds[c.idx].n

\* q is N / D with the fractional part discarded
IsTruncOf(q, N, D) ==
    IF N >= 0 THEN q * D <= N /\ N < (q + 1) * D
              ELSE q * D >= N /\ N > (q - 1) * D

\* C1: while a chunk whose speed is the drop sentinel is processed, nothing
\* is written to the output buffer and the write cursor keeps its value,
\* wherever the chunk stands in the schedule.
C1_DropKeepsCursor ==
    [][(InLoop /\ Dropped(chunks[chunkNum + 1]))
          => /\ yPointer' = yPointer
             /\ newAudio' = newAudio
             /\ chunkNum' = chunkNum + 1
             /\ pc' = "loop"]_vars

C1_Witness ==
    /\ pc = "loop"
    /\ chunkNum = 2
    /\ Dropped(chunks[2])
    /\ ~Dropped(chunks[1])
    /\ yPointer > 0
    /\ ticks = <<0, 1>>

\* C2: a schedule of the single chunk (0, T, i) with T > 0 and speeds[i] = 1
\* never ends in a fatal error, and the written output has
\* int(0 + (samplerate / fps) * T) samples.
C2_SingleUnityChunk ==
    (/\ Len(chunks) = 1
     /\ chunks[1].start = 0
     /\ chunks[1].end > 0
     /\ Unity(chunks[1]))
    => /\ pc \notin {"fatal", "crash"}
       /\ pc = "done" =>
            Len(written) =
               Trunc(RAdd(FromInt(0),
                          RMul(RDiv(FromInt(samplerate), fps),
                               FromInt(chunks[1].end))))

IsPartition(cs) ==
    /\ Len(cs) >= 1
    /\ cs[1].start = 0
    /\ \A k \in 1..Len(cs) : cs[k].start < cs[k].end
    /\ \A k \in 1..(Len(cs) - 1) : cs[k].end = cs[k + 1].start

\* C3: for two or more contiguous unity-speed chunks that partition [0, T),
\* the written output is the source samples [0, int(T / fps * samplerate))
\* in their original order, none skipped, duplicated or zeroed.
C3_UnityPartitionVerbatim ==
    (/\ pc = "done"
     /\ Len(chunks) >= 2
     /\ IsPartition(chunks)
     /\ \A k \in 1..Len(chunks) : Unity(chunks[k]))
    => written =
         [k \in 1..Trunc(RMul(RDiv(FromInt(chunks[Len(chunks)].end), fps),
                              FromInt(samplerate))) |-> k]

\* C4 (as stated): a chunk whose speed is neither 1 nor the drop sentinel
\* advances the write cursor by round(((end - start) / fps * samplerate) / speed).
C4_AdvanceIsRounded ==
    [][(InLoop /\ Stretched(chunks[chunkNum + 1]) /\ chunkNum' = chunkNum + 1)
          => yPointer' - yPointer =
                PyRound(Rat(ExpectedNum(chunks[chunkNum + 1]),
                            ExpectedDen(chunks[chunkNum + 1])))]_vars

\* C4 (amended): a chunk whose speed is neither 1 nor the drop sentinel
\* advances the write cursor by ((end - start) / fps * samplerate) / speed
\* truncated toward zero, whatever the length of the block the time-stretch
\* processor returned.
C4_AdvanceIsTruncated ==
    [][(InLoop /\ Stretched(chunks[chunkNum + 1]) /\ chunkNum' = chunkNum + 1)
          => IsTruncOf(yPointer' - yPointer,
                       ExpectedNum(chunks[chunkNum + 1]),
                       ExpectedDen(chunks[chunkNum + 1]))]_vars

C4_Witness ==
    /\ pc = "loop"
    /\ chunkNum = 1
    /\ Stretched(chunks[1])
    /\ chunks[1].start < chunks[1].end
    /\ yPointer > 0
    /\ yPointerEnd # yPointer

\* C5: for a chunk with start < end and a speed s > 1 other than the drop
\* sentinel, the cursor advance differs from
\* (audioSampleEnd - audioSampleStart) / s by at most one sample and is
\* never larger than audioSampleEnd - audioSampleStart.
C5_AdvanceNearQuotient ==
    [][(/\ InLoop
        /\ chunks[chunkNum + 1].start < chunks[chunkNum + 1].end
        /\ RLess(One, speeds[chunks[chunkNum + 1].idx])
        /\ ~Dropped(chunks[chunkNum + 1])
        /\ chunkNum' = chunkNum + 1)
          => LET c == chunks[chunkNum + 1]
                 s == speeds[c.idx]
                 A == yPointer' - yPointer
                 O == audioSampleEnd(c) - audioSampleStart(c)
             IN  /\ Abs(A * s.n - O * s.d) <= s.n
                 /\ A <= O]_vars

C5_Witness ==
    /\ pc = "loop"
    /\ chunkNum = 2
    /\ chunks[2].start < chunks[2].end
    /\ RLess(One, speeds[chunks[2].idx])
    /\ ~Dropped(chunks[2])
    /\ Unity(chunks[1])
    /\ yPointer > newSamples(chunks[1])
    /\ ticks = <<0, 1>>

\* C6: once the last chunk has been processed, the buffer that is written
\* out has exactly as many samples as the final value of the write cursor.
C6_WrittenLenIsCursor ==
    pc = "done" => Len(written) = yPointer

\* C7: the run is aborted with 'Trying to create an empty file.' when every
\* chunk of the schedule resolves to the drop sentinel, and never when some
\* chunk is neither dropped nor empty.
C7_FatalIffAllDropped ==
    (pc # "start" /\ Len(chunks) >= 1) =>
        /\ (\A k \in 1..Len(chunks) : Dropped(chunks[k])) => pc = "fatal"
        /\ (\E k \in 1..Len(chunks) :
               ~Dropped(chunks[k]) /\ chunks[k].start < chunks[k].end)
              => pc # "fatal"

ViolatesContract(cs) ==
    \/ Len(cs) = 1 /\ cs[1].start = cs[1].end
    \/ Len(cs) >= 1 /\ cs[1].start # 0
    \/ \E k \in 1..(Len(cs) - 1) : cs[k].end # cs[k + 1].start

\* C8: a schedule that violates the partition contract (single chunk of
\* zero length, first chunk not at 0, gap or overlap) is rejected with a
\* fatal error before the output buffer is allocated.
C8_RejectsInvalidSchedule ==
    ViolatesContract(chunks) => pc \in {"start", "fatal"}

\* C11: in a schedule of more than one chunk, a chunk that is not dropped
\* and whose source sample range is empty or inverted
\* (audioSampleEnd <= audioSampleStart) raises no error, writes no sample
\* and leaves the write cursor where it was (granted that the time-stretch
\* processor returns an empty block for an empty input).
C11_EmptyRangeIsZeroEmission ==
    [][(/\ InLoop
        /\ Len(chunks) > 1
        /\ ~Dropped(chunks[chunkNum + 1])
        /\ audioSampleEnd(chunks[chunkNum + 1])
              <= audioSampleStart(chunks[chunkNum + 1])
        /\ (Stretched(chunks[chunkNum + 1]) => yPointerEnd' = yPointer))
          => /\ pc' = "loop"
             /\ chunkNum' = chunkNum + 1
             /\ newAudio' = newAudio
             /\ yPointer' = yPointer]_vars

\* the reports 0, 1, ..., n - 1 in this order
Reports(n) == [k \in 1..n |-> k - 1]

\* C12: every chunk the loop takes up is reported, with its
\* index, by the step that processes it, whether the chunk is dropped,
\* copied or stretched and also when processing it fails; at the end the
\* reports are 0, 1, ..., n - 1.
C12_ReportEvenOnFailure ==
    [][/\ (InLoop => ticks' = Append(ticks, chunkNum))
       /\ (~InLoop => ticks' = ticks)
       /\ (pc' = "done" => ticks' = Reports(Len(chunks)))]_vars

\* contiguous chunks of positive length; every speed of the table is positive
ValidSchedule(cs) ==
    /\ Len(cs) >= 1
    /\ \A k \in 1..Len(cs) : cs[k].start < cs[k].end
    /\ \A k \in 1..(Len(cs) - 1) : cs[k].end = cs[k + 1].start

\* ceil(n / s)
CeilQuot(n, s) == LET q == RDiv(FromInt(n), s) IN -((-q.n) \div q.d)

\* C13: for a valid schedule, granted that getNewLength is the sum over the
\* kept chunks of (end_frame - start_frame) / speed / fps and that the
\* time-stretch processor returns at most ceil(input_length / speed)
\* samples, every step of the chunk loop leaves the write cursor and the
\* write end within the allocated capacity estLeng, and the write succeeds.
C13_WritesWithinCapacity ==
    [][(/\ InLoop
        /\ ValidSchedule(chunks)
        /\ (Stretched(chunks[chunkNum + 1])
              => yPointerEnd' - yPointer
                    <= CeilQuot(Len(spedChunk(chunks[chunkNum + 1])),
                                theSpeed(chunks[chunkNum + 1]))))
          => /\ pc' = "loop"
             /\ 0 <= yPointer'
             /\ yPointer' <= estLeng
             /\ yPointer <= yPointerEnd'
             /\ yPointerEnd' <= estLeng
             /\ Len(newAudio') = estLeng]_vars

\* the last chunk of a valid schedule was stretched, and the block written
\* was longer than the cursor advance
C13_Witness ==
    /\ pc = "loop"
    /\ ValidSchedule(chunks)
    /\ chunkNum = 2
    /\ Stretched(chunks[2])
    /\ ~Dropped(chunks[1])
    /\ yPointerEnd > yPointer
    /\ yPointerEnd <= estLeng
    /\ yPointerEnd - (yPointer - newSamples(chunks[2]))
          = CeilQuot(Len(spedChunk(chunks[2])), theSpeed(chunks[2]))

----------------------------------------------------------------------------
(* Timeline (timeline.py) *)

TLSpeeds == {One, FromInt(4)}

\* (start, dur) of a clip, and the number of clips of a layer
Extents == {<<0, 1>>, <<1, 2>>}
ClipCounts == 0..2

VideoObj ==
    {[kind |-> "video", start |-> e[1], dur |-> e[2], speed |-> s]
        : e \in Extents, s \in TLSpeeds}
VisualObj == {[kind |-> "other", start |-> e[1], dur |-> e[2]] : e \in Extents}
AudioObj ==
    {[kind |-> "audio", start |-> e[1], dur |-> e[2], speed |-> s]
        : e \in Extents, s \in TLSpeeds}

VLayers == UNION {[1..n -> VideoObj \cup VisualObj] : n \in ClipCounts}
ALayers == UNION {[1..n -> AudioObj] : n \in ClipCounts}

isVideoObj(c) == c.kind = "video"

\* round(c.start + (c.dur / c.speed))
roundedFinish(c) ==
    PyRound(RAdd(FromInt(c.start), RDiv(FromInt(c.dur), c.speed)))

\* variant: no lower clamp on the finish of a video clip
RECURSIVE endOverVNoClamp(_, _, _)
endOverVNoClamp(vs, k, end) ==
    IF k > Len(vs) THEN end
    ELSE LET vclips == vs[k]
         IN  IF Len(vclips) > 0
             THEN LET c == vclips[Len(vclips)]
                  IN  IF isVideoObj(c)
                      THEN endOverVNoClamp(vs, k + 1,
                                           Max(end, roundedFinish(c)))
                      ELSE endOverVNoClamp(vs, k + 1,
                                           Max(end, c.start + c.dur))
             ELSE endOverVNoClamp(vs, k + 1, end)

\* lines 46-52: the loop over self.v, from layer k on
RECURSIVE endOverV(_, _, _)
endOverV(vs, k, end) ==
    IF k > Len(vs) THEN end
    ELSE LET vclips == vs[k]
         IN  IF Len(vclips) > 0
             THEN LET c == vclips[Len(vclips)]
                  IN  IF isVideoObj(c)
                      THEN endOverV(vs, k + 1,
                                    Max(end, Max(1, roundedFinish(c))))
                      ELSE endOverV(vs, k + 1, Max(end, c.start + c.dur))
             ELSE endOverV(vs, k + 1, end)

\* lines 53-56: the loop over self.a, from layer k on
RECURSIVE endOverA(_, _, _)
endOverA(as, k, end) ==
    IF k > Len(as) THEN end
    ELSE LET aclips == as[k]
         IN  IF Len(aclips) > 0
             THEN endOverA(as, k + 1,
                           Max(end, Max(1, roundedFinish(aclips[Len(aclips)]))))
             ELSE endOverA(as, k + 1, end)

\* Timeline.end
end(vs, as) == endOverA(as, 1, endOverV(vs, 1, 0))

\* lines 63-68 and 71-73: dur accumulated over the clips of one layer
RECURSIVE layerDur(_, _, _)
layerDur(clips, k, dur) ==
    IF k > Len(clips) THEN dur
    ELSE LET c == clips[k]
         IN  IF c.kind = "other"
             THEN layerDur(clips, k + 1, RAdd(dur, FromInt(c.dur)))
             ELSE layerDur(clips, k + 1,
                           RAdd(dur, RDiv(FromInt(c.dur), c.speed)))

\* variant: out_len = dur, the last layer wins
RECURSIVE outLenOverLast(_, _, _)
outLenOverLast(ls, k, acc) ==
    IF k > Len(ls) THEN acc
    ELSE outLenOverLast(ls, k + 1, layerDur(ls[k], 1, FromInt(0)))

\* lines 62-74: out_len = max(out_len, dur) over the layers, from layer k on
RECURSIVE outLenOver(_, _, _)
outLenOver(ls, k, acc) ==
    IF k > Len(ls) THEN acc
    ELSE outLenOver(ls, k + 1, RMax(acc, layerDur(ls[k], 1, FromInt(0))))

\* Timeline.out_len
out_len(vs, as) == outLenOver(as, 1, outLenOver(vs, 1, FromInt(0)))

TLInit ==
    /\ \E m \in 0..MaxLayers : \E mv \in 0..m :
          /\ v \in [1..mv -> VLayers]
          /\ a \in [1..(m - mv) -> ALayers]
    /\ tl_op = "none"
    /\ tl_val = FromInt(0)
    /\ chunks = <<>>
    /\ speeds = [i \in 0..1 |-> One]
    /\ fps = FromInt(2)
    /\ samplerate = 3
    /\ audioLen = 0
    /\ pc = "off"
    /\ estLeng = 0
    /\ newAudio = <<>>
    /\ yPointer = 0
    /\ yPointerEnd = 0
    /\ chunkNum = 0
    /\ ticks = <<>>
    /\ written = <<>>
    /\ tl_tb = FromInt(1)
    /\ timebase = 0
    /\ ntsc = "FALSE"
    /\ read_tb = FromInt(0)
    /\ tb_pc = "off"
    /\ uri = <<>>
    /\ path = <<>>
    /\ uri_pc = "off"

\* lines 43-58
ReadEnd ==
    /\ tl_op' = "end"
    /\ tl_val' = FromInt(end(v, a))
    /\ UNCHANGED <<v, a>>
    /\ UNCHANGED <<audioVars, fcpVars>>

\* lines 60-75
ReadOutLen ==
    /\ tl_op' = "out_len"
    /\ tl_val' = out_len(v, a)
    /\ UNCHANGED <<v, a>>
    /\ UNCHANGED <<audioVars, fcpVars>>

\* lines 183-184: timeline.v.append([vobj])
AppendVisual ==
    /\ Len(v) + Len(a) < MaxLayers
    /\ \E vobj \in VisualObj : v' = Append(v, <<vobj>>)
    /\ tl_op' = "none"
    /\ tl_val' = FromInt(0)
    /\ UNCHANGED a
    /\ UNCHANGED <<audioVars, fcpVars>>

\* lines 186-187: timeline.a.append([aobj])
AppendAudio ==
    /\ Len(v) + Len(a) < MaxLayers
    /\ \E aobj \in AudioObj : a' = Append(a, <<aobj>>)
    /\ tl_op' = "none"
    /\ tl_val' = FromInt(0)
    /\ UNCHANGED v
    /\ UNCHANGED <<audioVars, fcpVars>>

TLNext ==
    \/ ReadEnd
    \/ ReadOutLen
    \/ AppendVisual
    \/ AppendAudio

SpecTL == TLInit /\ [][TLNext]_vars

----------------------------------------------------------------------------
(* Properties of the Timeline aggregates *)

SetMax(S) == CHOOSE x \in S : \A y \in S : y <= x

Layers == {v[k] : k \in 1..Len(v)} \cup {a[k] : k \in 1..Len(a)}
LastClips == {l[Len(l)] : l \in {l \in Layers : Len(l) > 0}}

Speedy(c) == c.kind \in {"video", "audio"}

\* C9 (as stated): Timeline.end is the maximum over the non-empty layers of
\* the finish of the layer's last clip, round(start + dur / speed) for a
\* VideoObj or audio clip and start + dur for another visual object, and 0
\* when every layer is empty.
C9_EndIsMaxFinish ==
    tl_op = "end" =>
        tl_val = FromInt(SetMax({0} \cup
                   {IF Speedy(c) THEN roundedFinish(c) ELSE c.start + c.dur
                      : c \in LastClips}))

\* C9 (amended): Timeline.end is the maximum over the non-empty layers of
\* the finish of the layer's last clip, max(1, round(start + dur / speed))
\* for a VideoObj or audio clip and start + dur for another visual object,
\* and 0 when every layer is empty.
C9_EndIsMaxClampedFinish ==
    tl_op = "end" =>
        tl_val = FromInt(SetMax({0} \cup
                   {IF Speedy(c) THEN SetMax({1, roundedFinish(c)})
                                 ELSE c.start + c.dur
                      : c \in LastClips}))

C9_Witness ==
    /\ tl_op = "end"
    /\ Len(v) = 1
    /\ Len(a) = 1
    /\ Len(v[1]) = 2
    /\ Len(a[1]) = 2
    /\ isVideoObj(v[1][2])
    /\ roundedFinish(v[1][2]) = 0
    /\ roundedFinish(a[1][2]) = 0
    /\ tl_val = FromInt(1)

\* the playback length of one clip
ClipLen(c) == IF Speedy(c) THEN RDiv(FromInt(c.dur), c.speed) ELSE FromInt(c.dur)

\* sum of ClipLen over the positions P of the layer l
RECURSIVE SumOver(_, _)
SumOver(l, P) ==
    IF P = {} THEN FromInt(0)
    ELSE LET k == CHOOSE k \in P : TRUE
         IN  RAdd(ClipLen(l[k]), SumOver(l, P \ {k}))

LayerSums == {SumOver(l, DOMAIN l) : l \in Layers}

\* every layer reversed, every clip moved to start 0
Reverse(l) == [k \in 1..Len(l) |-> [l[Len(l) + 1 - k] EXCEPT !.start = 0]]
Shuffled(ls) == [k \in 1..Len(ls) |-> Reverse(ls[k])]

----------------------------------------------------------------------------
(* Final Cut Pro 7 XML helpers (formats/fcp7.py) *)

\* ceil(x)
Ceil(x) == -((-x.n) \div x.d)

\* timebases handed to set_tb_ntsc: the three NTSC rates, integer rates,
\* rates of the form k * 999/1000 and other non-integer rates
TimeBases ==
    {Rat(24000, 1001), Rat(30000, 1001), Rat(60000, 1001)}
        \cup {FromInt(k) : k \in {1, 24, 25, 30, 50, 60}}
        \cup {RMul(FromInt(k), Rat(999, 1000)) : k \in {1, 24, 25, 30, 50, 60}}
        \cup {Rat(1, 2), Rat(25, 2), Rat(2997, 100)}

set_tb_ntsc(tb) ==
    IF tb = Rat(24000, 1001) THEN <<24, "TRUE">>
    ELSE IF tb = Rat(30000, 1001) THEN <<30, "TRUE">>
    ELSE IF tb = Rat(60000, 1001) THEN <<60, "TRUE">>
    ELSE LET ctb == Ceil(tb)
         IN  IF ctb \notin {24, 30, 60}
                  /\ RMul(FromInt(ctb), Rat(999, 1000)) = tb
             THEN <<ctb, "TRUE">>
             ELSE <<Trunc(tb), "FALSE">>

\* variant: every NTSC timebase is read as tb * 999/1000
read_tb_ntsc_scaled(tb, isNtsc) ==
    IF isNtsc THEN RMul(FromInt(tb), Rat(999, 1000)) ELSE FromInt(tb)

read_tb_ntsc(tb, isNtsc) ==
    IF isNtsc
    THEN IF tb = 24 THEN Rat(24000, 1001)
         ELSE IF tb = 30 THEN Rat(30000, 1001)
         ELSE IF tb = 60 THEN Rat(60000, 1001)
         ELSE RMul(FromInt(tb), Rat(999, 1000))
    ELSE FromInt(tb)

\* a string is the sequence of its characters
FileScheme == <<"f", "i", "l", "e", ":", "/", "/">>
FileLocalhost == <<"f", "i", "l", "e", ":", "/", "/", "l", "o", "c", "a", "l", "h", "o", "s", "t">>
FileLocalhostSlash == <<"f", "i", "l", "e", ":", "/", "/", "l", "o", "c", "a", "l", "h", "o", "s", "t", "/">>

\* the escape table of de_norm: (two hex digits, character); the backslash,
\* the grave accent, the apostrophe and the double quote go by their names
uri_escape ==
    {<<<<"3", "C">>, "<">>, <<<<"3", "E">>, ">">>,
     <<<<"2", "3">>, "#">>, <<<<"2", "5">>, "%">>,
     <<<<"2", "B">>, "+">>, <<<<"7", "B">>, "{">>,
     <<<<"7", "D">>, "}">>, <<<<"7", "C">>, "|">>,
     <<<<"5", "C">>, "backslash">>, <<<<"5", "E">>, "^">>,
     <<<<"7", "E">>, "~">>, <<<<"5", "B">>, "[">>,
     <<<<"5", "D">>, "]">>, <<<<"6", "0">>, "grave">>,
     <<<<"3", "F">>, "?">>, <<<<"3", "A">>, ":">>,
     <<<<"4", "0">>, "@">>, <<<<"3", "D">>, "=">>,
     <<<<"2", "A">>, "*">>, <<<<"2", "9">>, ")">>,
     <<<<"2", "8">>, "(">>, <<<<"2", "7">>, "apostrophe">>,
     <<<<"2", "6">>, "&">>, <<<<"2", "4">>, "$">>,
     <<<<"2", "2">>, "quote">>, <<<<"2", "1">>, "!">>}

EscapeTags == {e[1] : e \in uri_escape}
Unescape(tag) == (CHOOSE e \in uri_escape : e[1] = tag)[2]

startswith(s, prefix) ==
    Len(s) >= Len(prefix) /\ SubSeq(s, 1, Len(prefix)) = prefix

\* the loop of de_norm from the 0-based position i on
RECURSIVE de_norm_from(_, _)
de_norm_from(s, i) ==
    IF i >= Len(s) THEN <<>>
    ELSE LET char == s[i + 1]
             out == IF char = "%" /\ Len(s) > i + 3
                    THEN LET tag == <<s[i + 2], s[i + 3]>>
                         IN  IF tag \in EscapeTags THEN Unescape(tag) ELSE char
                    ELSE char
         IN  <<out>> \o de_norm_from(s, i + 1)

de_norm(s) == de_norm_from(s, 0)

uri_to_path(u) ==
    IF startswith(u, FileLocalhostSlash) THEN de_norm(SubSeq(u, 17, Len(u)))
    ELSE IF startswith(u, FileScheme) THEN de_norm(SubSeq(u, 8, Len(u)))
    ELSE u

\* the uris handed to uri_to_path: a prefix, then a tail of at most
\* MaxUriTail characters
UriChars == {"%", "3", "A", "x"}
UriPrefixes ==
    {<<>>, <<"/">>, FileScheme, FileScheme \o <<"/">>, FileLocalhostSlash}
UriTails == UNION {[1..n -> UriChars] : n \in 0..MaxUriTail}
Uris == {p \o t : p \in UriPrefixes, t \in UriTails}

FcpInit ==
    /\ tl_tb \in TimeBases
    /\ timebase = 0
    /\ ntsc = "FALSE"
    /\ read_tb = FromInt(0)
    /\ tb_pc = "idle"
    /\ uri \in Uris
    /\ path = <<>>
    /\ uri_pc = "idle"
    /\ v = <<>>
    /\ a = <<>>
    /\ tl_op = "none"
    /\ tl_val = FromInt(0)
    /\ chunks = <<>>
    /\ speeds = [i \in 0..1 |-> One]
    /\ fps = FromInt(2)
    /\ samplerate = 3
    /\ audioLen = 0
    /\ pc = "off"
    /\ estLeng = 0
    /\ newAudio = <<>>
    /\ yPointer = 0
    /\ yPointerEnd = 0
    /\ chunkNum = 0
    /\ ticks = <<>>
    /\ written = <<>>

\* line 378: timebase, ntsc = set_tb_ntsc(tl.tb)
SetTbNtsc ==
    /\ tb_pc = "idle"
    /\ timebase' = set_tb_ntsc(tl_tb)[1]
    /\ ntsc' = set_tb_ntsc(tl_tb)[2]
    /\ tb_pc' = "set"
    /\ UNCHANGED <<tl_tb, read_tb, uri, path, uri_pc>>
    /\ UNCHANGED <<audioVars, tlVars>>

\* line 209: tb = read_tb_ntsc(timebase, ntsc) on the pair that was written
ReadTbNtsc ==
    /\ tb_pc = "set"
    /\ read_tb' = read_tb_ntsc(timebase, ntsc = "TRUE")
    /\ tb_pc' = "read"
    /\ UNCHANGED <<tl_tb, timebase, ntsc, uri, path, uri_pc>>
    /\ UNCHANGED <<audioVars, tlVars>>

\* lines 280, 314: uri_to_path(fileobj["pathurl"])
UriToPath ==
    /\ uri_pc = "idle"
    /\ path' = uri_to_path(uri)
    /\ uri_pc' = "done"
    /\ UNCHANGED <<tl_tb, timebase, ntsc, read_tb, tb_pc, uri>>
    /\ UNCHANGED <<audioVars, tlVars>>

FcpNext ==
    \/ SetTbNtsc
    \/ ReadTbNtsc
    \/ UriToPath

SpecFcp == FcpInit /\ [][FcpNext]_vars

----------------------------------------------------------------------------
(* Properties of the FCP7 helpers *)

NtscRates == {Rat(24000, 1001), Rat(30000, 1001), Rat(60000, 1001)}

\* a timebase the (timebase, ntsc) pair can carry: an integer, one of the
\* three NTSC rates, or ceil(tb) * 999/1000 with ceil(tb) not 24, 30 or 60
Representable(tb) ==
    \/ tb.d = 1
    \/ tb \in NtscRates
    \/ /\ Ceil(tb) \notin {24, 30, 60}
       /\ tb.n * 1000 = Ceil(tb) * 999 * tb.d

\* C14 (as stated): writing any positive rational timebase with set_tb_ntsc
\* and reading the pair back with read_tb_ntsc returns the original value.
C14_RoundTripAlways ==
    tb_pc = "read" => read_tb = tl_tb

\* C14 (amended): the round trip returns the original timebase exactly when
\* it is an integer, one of the NTSC rates 24000/1001, 30000/1001,
\* 60000/1001, or ceil(tb) * 999/1000 with ceil(tb) not 24, 30 or 60; any
\* other timebase is written as (int(tb), "FALSE") and read back as int(tb),
\* which differs from it.
C14_RoundTripWhenRepresentable ==
    tb_pc = "read"
        => IF Representable(tl_tb)
           THEN read_tb = tl_tb
           ELSE /\ read_tb = FromInt(Trunc(tl_tb))
                /\ ntsc = "FALSE"
                /\ read_tb # tl_tb

\* an NTSC rate came back unchanged
C14_Witness ==
    /\ tb_pc = "read"
    /\ tl_tb = Rat(30000, 1001)
    /\ timebase = 30
    /\ ntsc = "TRUE"
    /\ read_tb = tl_tb

\* what the escapes of s denote, from the 0-based position i on
RECURSIVE Unescaped(_, _)
Unescaped(s, i) ==
    IF i >= Len(s) THEN <<>>
    ELSE IF /\ s[i + 1] = "%"
            /\ i + 3 <= Len(s)
            /\ <<s[i + 2], s[i + 3]>> \in EscapeTags
         THEN <<Unescape(<<s[i + 2], s[i + 3]>>)>> \o Unescaped(s, i + 3)
         ELSE <<s[i + 1]>> \o Unescaped(s, i + 1)

\* C15: uri_to_path removes a leading file://localhost or file:// and
\* replaces, in the remainder, every escape %XY of the table by the
\* character it denotes, wherever it stands, without repeating the two hex
\* digits; a string with no such prefix is returned unchanged.
C15_UriToPathDecodes ==
    uri_pc = "done"
        => path = IF startswith(uri, FileLocalhost)
                  THEN Unescaped(SubSeq(uri, 17, Len(uri)), 0)
                  ELSE IF startswith(uri, FileScheme)
                  THEN Unescaped(SubSeq(uri, 8, Len(uri)), 0)
                  ELSE uri

====
